---- MODULE Spec2Model ----
(***************************************************************************)
(* Model of the Nillion DB action provider of the Moderia marketplace      *)
(* agent: process start-up (environment, NODE_CONFIG snapshot, provider    *)
(* construction), the twelve action-provider entry points, the per-node    *)
(* HTTP requests they issue and the records the storage nodes keep.        *)
(***************************************************************************)
EXTENDS Integers, Sequences, FiniteSets, Bags, TLC

\* ------------------------------------------------------------------ bounds
\* number of identifiers crypto.randomUUID() hands out in one behaviour
MaxIds == 2
\* number of write requests answered otherwise than "HTTP 2xx, success:true"
MaxFaults == 1
\* number of requests of earlier calls still unanswered when a call begins
MaxOrphans == 0
\* number of lines typed and Telegram messages received in one behaviour
MaxInputs == 4

\* --------------------------------------------------------------- constants
\* Object.keys(NODE_CONFIG), in declaration order
Nodes == <<"NODE1", "NODE2", "NODE3">>
NodeNames == {Nodes[i] : i \in 1..Len(Nodes)}

UrlKey == [n \in NodeNames |-> <<n, "URL">>]
DidKey == [n \in NodeNames |-> <<n, "DID">>]

\* the eleven keys NillionDBConfig's constructor requires
requiredVars ==
  {<<"SV_ORG_DID">>, <<"SV_PRIVATE_KEY">>,
   <<"SCHEMA_ID_SERVICE">>, <<"SCHEMA_ID_BOOKING">>, <<"SCHEMA_ID_REVIEW">>}
  \cup {UrlKey[n] : n \in NodeNames} \cup {DidKey[n] : n \in NodeNames}

NodeKeys == {UrlKey[n] : n \in NodeNames} \cup {DidKey[n] : n \in NodeNames}
OtherKeys == requiredVars \ NodeKeys

SERVICE_TYPES == {"language_class", "tutoring", "consulting", "coaching", "other"}
BOOKING_STATUS == [PENDING |-> "pending", CONFIRMED |-> "confirmed",
                   COMPLETED |-> "completed", CANCELLED |-> "cancelled",
                   DISPUTED |-> "disputed"]
BookingStatusValues == {BOOKING_STATUS[k] : k \in DOMAIN BOOKING_STATUS}
RATING_MIN == 1
RATING_MAX == 5

API_ENDPOINTS == [CREATE_SCHEMA |-> "/api/v1/schemas",
                  CREATE_DATA   |-> "/api/v1/data/create",
                  READ_DATA     |-> "/api/v1/data/read",
                  EXECUTE_QUERY |-> "/api/v1/queries/execute"]

ERROR_CODES == [ENV_ERROR |-> "ENV_ERROR", CONFIG_ERROR |-> "CONFIG_ERROR",
                DATA_ERROR |-> "DATA_ERROR", QUERY_ERROR |-> "QUERY_ERROR",
                NETWORK_ERROR |-> "NETWORK_ERROR"]

ERROR_MESSAGES == [
  MISSING_ENV_VARS       |-> "Missing required environment variables for Nillion DB",
  INVALID_NODE_CONFIG    |-> "Invalid node configuration",
  SCHEMA_CREATION_FAILED |-> "Failed to create schema",
  DATA_CREATION_FAILED   |-> "Failed to create data",
  DATA_RETRIEVAL_FAILED  |-> "Failed to retrieve data",
  QUERY_EXECUTION_FAILED |-> "Failed to execute query"]

\* ids of the predefined queries (queryDefinitions[*].id)
queryDefinitions == {"find_services_by_type", "find_bookings_by_client",
                     "find_bookings_by_provider", "find_disputed_reviews"}

SchemaOps == {"createServiceSchema", "createBookingSchema", "createReviewSchema"}
CreateOps == {"createService", "createBooking", "createReview"}
WriteOps  == SchemaOps \cup CreateOps
ListOps   == {"getAvailableServices", "getClientBookings", "getProviderBookings"}
ReadOps   == ListOps \cup {"executeQuery"}
LocalOps  == {"updateBookingStatus", "resolveDispute"}
AllOps    == WriteOps \cup ReadOps \cup LocalOps

\* collection each operation addresses
SchemaOf == [o \in AllOps |->
  CASE o \in {"createServiceSchema", "createService", "getAvailableServices"} -> "service"
    [] o \in {"createBookingSchema", "createBooking", "getClientBookings",
              "getProviderBookings", "updateBookingStatus"} -> "booking"
    [] o \in {"createReviewSchema", "createReview", "resolveDispute"} -> "review"
    [] OTHER -> "query"]

\* ---------------------------------------------------------- input domains
ServiceTypeInputs == {"tutoring", "massage"}
RatingInputs      == {0, 1, 5, 6}
RefInputs         == {1}
StatusInputs      == {"completed", "archived"}
QueryIdInputs     == {"find_disputed_reviews", "drop_tables"}
FilterInputs      == {"", "tutoring"}

\* parameter object of a call; unused fields keep their defaults
NoArg == [serviceType |-> "", rating |-> 0, ref |-> 0, status |-> "", queryId |-> ""]

\* outcomes of one HTTP exchange with a node
Outcomes == {"ok_true", "ok_false", "http_error", "transport"}

VARIABLES
  env,          \* process.env restricted to requiredVars: TRUE = non-empty value
  NODE_CONFIG,  \* snapshot taken when the constants module is evaluated
  boot,         \* start-up progress: constants evaluated, dotenv run, provider
  nextId,       \* source of crypto.randomUUID()
  call,         \* the most recent action-provider call and its result
  answers,      \* per node, what the most recent call's request met
  sent,         \* per node, the request bodies the most recent call issued
  inflight,     \* HTTP requests issued and not yet answered
  store,        \* per node, the bag of records the node keeps
  before,       \* history: store without the most recent call, i.e. as it was
                \* when the call began plus what earlier calls' requests added
  created,      \* history: the identifiers create calls gave their records
  acked,        \* history: what create calls returned with success:true
  faults,       \* number of non-accepting node responses so far
  main,         \* the chatbot's main(): position, chosen mode, exit code
  chooser,      \* chooseMode's readline interface and the lines it was given
  telegram,     \* the TelegramInterface of the current Telegram mode
  pending,      \* Telegram handlers suspended at `await bot.sendMessage(...)`
  effects,      \* history: what the current TelegramInterface did, per message
  inputs        \* number of lines and Telegram messages consumed so far

botVars == <<main, chooser, telegram, pending, effects, inputs>>

vars == <<env, NODE_CONFIG, boot, nextId, call, answers, sent, inflight,
          store, before, created, acked, faults, botVars>>

\* ------------------------------------------------------------ the errors
NoError == [name |-> "none", code |-> "", message |-> ""]
NillionDBError(message, code) ==
  [name |-> "NillionDBError", code |-> code, message |-> message]
PlainError(message) == [name |-> "Error", code |-> "", message |-> message]

\* formatErrorForAgent
formatErrorForAgent(error) ==
  IF error.name = "NillionDBError"
    THEN <<"Error [", error.code, "]: ", error.message>>
    ELSE IF error.name = "Error"
      THEN <<"Error: ", error.message>>
      ELSE <<"Unknown error: ", error.message>>

\* a validation that looks at the node keys only
validateEnvironmentVariables_nodes(e, required) ==
  {k \in required \cap NodeKeys : ~e[k]}

\* validateEnvironmentVariables: the keys that are missing
validateEnvironmentVariables(e, required) == {k \in required : ~e[k]}

\* ------------------------------------------------------ NillionDBConfig
\* validateNodeConfig: the error it raises, NoError when the node is complete
validateNodeConfig(nodeName) ==
  IF ~NODE_CONFIG[nodeName].url \/ ~NODE_CONFIG[nodeName].did
    THEN NillionDBError("Invalid node configuration", ERROR_CODES.CONFIG_ERROR)
    ELSE NoError

\* a filter that asks for a URL only
getValidNodes_urlOnly ==
  SelectSeq(Nodes, LAMBDA n : NODE_CONFIG[n].url)

\* getValidNodes, as the sequence Object.keys(...).filter(...) produces
getValidNodes ==
  SelectSeq(Nodes, LAMBDA n : NODE_CONFIG[n].url /\ NODE_CONFIG[n].did)

ValidNodeSet == {getValidNodes[i] : i \in 1..Len(getValidNodes)}

\* ------------------------------------------------------------- start-up
EnvFiles == {[k \in requiredVars |-> TRUE], [k \in requiredVars |-> FALSE]}

\* process.env before dotenv runs: the first m nodes (m = 0..3) lack their
\* URL, or no node has an identity (with or without URLs); at most one of the
\* other keys is missing
InitEnvs ==
  {e \in [requiredVars -> BOOLEAN] :
     /\ Cardinality({k \in OtherKeys : ~e[k]}) <= 1
     /\ \/ /\ \A n \in NodeNames : e[DidKey[n]]
           /\ \E m \in 0..Len(Nodes) :
                \A i \in 1..Len(Nodes) : e[UrlKey[Nodes[i]]] <=> (i > m)
        \/ /\ \A n \in NodeNames : ~e[DidKey[n]]
           /\ \E u \in BOOLEAN : \A n \in NodeNames : e[UrlKey[n]] = u}

NoCall == [op |-> "none", arg |-> NoArg, pc |-> "idle", threw |-> FALSE,
           success |-> FALSE, message |-> <<>>, id |-> 0, data |-> EmptyBag,
           passed |-> FALSE]

\* the chatbot before main() runs
BotBoot(token) ==
  /\ main = [pc |-> "start", mode |-> "none", ended |-> "none", exit |-> "none",
             demoStep |-> 0, iterated |-> FALSE]
  /\ chooser = [rl |-> "none", typed |-> <<>>]
  /\ telegram = [token |-> token, instance |-> 0, isStarted |-> FALSE,
                 polling |-> FALSE, starters |-> {}, dropped |-> {}]
  /\ pending = {}
  /\ effects = {}
  /\ inputs = 0

BotStart == BotBoot(TRUE)

ProviderStart ==
  /\ env \in InitEnvs
  /\ NODE_CONFIG = [n \in NodeNames |-> [url |-> FALSE, did |-> FALSE]]
  /\ boot = [constants |-> FALSE, dotenv |-> FALSE, provider |-> "none",
             error |-> NoError]
  /\ nextId = 1
  /\ call = NoCall
  /\ answers = [n \in NodeNames |-> "none"]
  /\ sent = [n \in NodeNames |-> <<>>]
  /\ inflight = {}
  /\ store = [n \in NodeNames |-> EmptyBag]
  /\ before = [n \in NodeNames |-> EmptyBag]
  /\ created = <<>>
  /\ acked = {}
  /\ faults = 0

Init == BotStart /\ ProviderStart

opVars == <<nextId, call, answers, sent, inflight, store, before,
           created, acked, faults>>
providerVars == <<env, NODE_CONFIG, boot, opVars>>

\* evaluation of the constants module: NODE_CONFIG reads process.env once
LoadConstants ==
  /\ ~boot.constants
  /\ NODE_CONFIG' = [n \in NodeNames |->
                       [url |-> env[UrlKey[n]], did |-> env[DidKey[n]]]]
  /\ boot' = [boot EXCEPT !.constants = TRUE]
  /\ UNCHANGED <<env, opVars, botVars>>

\* dotenv.config(): keys of the .env file fill in what process.env lacks
DotenvConfig ==
  /\ ~boot.dotenv
  /\ boot.provider = "none"
  /\ \E file \in EnvFiles :
       env' = [k \in requiredVars |-> env[k] \/ file[k]]
  /\ boot' = [boot EXCEPT !.dotenv = TRUE]
  /\ UNCHANGED <<NODE_CONFIG, opVars, botVars>>

\* new NillionDBActionProvider(): the constructor of NillionDBConfig
Construct ==
  /\ boot.constants
  /\ boot.dotenv
  /\ boot.provider = "none"
  /\ LET missingVars == validateEnvironmentVariables(env, requiredVars)
     IN boot' = IF missingVars = {}
                  THEN [boot EXCEPT !.provider = "ready"]
                  ELSE [boot EXCEPT !.provider = "failed",
                                    !.error = NillionDBError(
                                      <<ERROR_MESSAGES.MISSING_ENV_VARS, missingVars>>,
                                      ERROR_CODES.ENV_ERROR)]
  /\ UNCHANGED <<env, NODE_CONFIG, opVars, botVars>>


\* ------------------------------------------------------------ the records
\* an identifier source that repeats itself
randomUUID_fixed(counter) == 1

\* crypto.randomUUID(): a value no earlier call of it returned
randomUUID(counter) == counter

ServiceRecord(id, arg) ==
  [kind |-> "service", id |-> id, service_type |-> arg.serviceType,
   available |-> TRUE]
\* a booking that starts out pending
BookingRecord_pending(id, arg) ==
  [kind |-> "booking", id |-> id, service_id |-> arg.ref,
   status |-> BOOKING_STATUS.PENDING]

BookingRecord(id, arg) ==
  [kind |-> "booking", id |-> id, service_id |-> arg.ref,
   status |-> BOOKING_STATUS.CONFIRMED]
ReviewRecord(id, arg) ==
  [kind |-> "review", id |-> id, rating |-> arg.rating, disputed |-> FALSE]

BuildRecord(op, id, arg) ==
  CASE op = "createService" -> ServiceRecord(id, arg)
    [] op = "createBooking" -> BookingRecord(id, arg)
    [] op = "createReview"  -> ReviewRecord(id, arg)

SuccessMessage == [o \in AllOps |->
  CASE o = "createServiceSchema" -> <<"Service schema created successfully">>
    [] o = "createBookingSchema" -> <<"Booking schema created successfully">>
    [] o = "createReviewSchema"  -> <<"Review schema created successfully">>
    [] o = "createService" -> <<"Service created successfully">>
    [] o = "createBooking" -> <<"Booking created successfully">>
    [] o = "createReview"  -> <<"Review created successfully">>
    [] o = "getAvailableServices" -> <<"Available services retrieved successfully">>
    [] o = "getClientBookings" -> <<"Client bookings retrieved successfully">>
    [] o = "getProviderBookings" -> <<"Provider bookings retrieved successfully">>
    [] o = "updateBookingStatus" -> <<"Booking status updated to">>
    [] o = "resolveDispute" -> <<"Dispute resolved successfully">>
    [] o = "executeQuery" -> <<"Query executed successfully">>]

\* ------------------------------------------------- results of a call
\* the object a call returns from its try block
Returned(op, arg, success, id, data) ==
  [op |-> op, arg |-> arg, pc |-> "returned", threw |-> FALSE,
   success |-> success, message |-> SuccessMessage[op], id |-> id,
   data |-> data, passed |-> TRUE]

\* a catch block that lets the error escape to the caller
Catch_rethrow(error) ==
  [threw |-> TRUE, success |-> FALSE, message |-> formatErrorForAgent(error)]

\* the catch block of every entry point
Catch(error) ==
  [threw |-> FALSE, success |-> FALSE, message |-> formatErrorForAgent(error)]

Caught(op, arg, error, passed) ==
  [op |-> op, arg |-> arg, pc |-> "returned", threw |-> Catch(error).threw,
   success |-> Catch(error).success, message |-> Catch(error).message,
   id |-> 0, data |-> EmptyBag, passed |-> passed]

Awaiting(op, arg, id) ==
  [op |-> op, arg |-> arg, pc |-> "awaiting", threw |-> FALSE,
   success |-> FALSE, message |-> <<>>, id |-> id, data |-> EmptyBag,
   passed |-> TRUE]

\* results.some(...): one successful node would be enough
every_any(results) == \E n \in DOMAIN results : results[n]

\* results.every((result) => result.success)
every(results) == \A n \in DOMAIN results : results[n]

\* validation without the service-type check
Validate_noServiceType(op, arg) ==
  CASE op = "createReview" /\ (arg.rating < RATING_MIN \/ arg.rating > RATING_MAX) ->
         NillionDBError("Rating must be between 1 and 5", ERROR_CODES.DATA_ERROR)
    [] op = "updateBookingStatus" /\ arg.status \notin BookingStatusValues ->
         NillionDBError("Invalid status", ERROR_CODES.DATA_ERROR)
    [] op = "executeQuery" /\ arg.queryId \notin queryDefinitions ->
         NillionDBError("Query not found", ERROR_CODES.QUERY_ERROR)
    [] OTHER -> NoError

\* validation whose rating bounds are exclusive
Validate_exclusiveRating(op, arg) ==
  CASE op = "createService" /\ arg.serviceType \notin SERVICE_TYPES ->
         NillionDBError("Invalid service type", ERROR_CODES.DATA_ERROR)
    [] op = "createReview" /\ (arg.rating <= RATING_MIN \/ arg.rating >= RATING_MAX) ->
         NillionDBError("Rating must be between 1 and 5", ERROR_CODES.DATA_ERROR)
    [] op = "updateBookingStatus" /\ arg.status \notin BookingStatusValues ->
         NillionDBError("Invalid status", ERROR_CODES.DATA_ERROR)
    [] op = "executeQuery" /\ arg.queryId \notin queryDefinitions ->
         NillionDBError("Query not found", ERROR_CODES.QUERY_ERROR)
    [] OTHER -> NoError

\* validation without the query-catalog lookup
Validate_noQueryLookup(op, arg) ==
  CASE op = "createService" /\ arg.serviceType \notin SERVICE_TYPES ->
         NillionDBError("Invalid service type", ERROR_CODES.DATA_ERROR)
    [] op = "createReview" /\ (arg.rating < RATING_MIN \/ arg.rating > RATING_MAX) ->
         NillionDBError("Rating must be between 1 and 5", ERROR_CODES.DATA_ERROR)
    [] op = "updateBookingStatus" /\ arg.status \notin BookingStatusValues ->
         NillionDBError("Invalid status", ERROR_CODES.DATA_ERROR)
    [] OTHER -> NoError

\* validation without the booking-status check
Validate_noStatus(op, arg) ==
  CASE op = "createService" /\ arg.serviceType \notin SERVICE_TYPES ->
         NillionDBError("Invalid service type", ERROR_CODES.DATA_ERROR)
    [] op = "createReview" /\ (arg.rating < RATING_MIN \/ arg.rating > RATING_MAX) ->
         NillionDBError("Rating must be between 1 and 5", ERROR_CODES.DATA_ERROR)
    [] op = "executeQuery" /\ arg.queryId \notin queryDefinitions ->
         NillionDBError("Query not found", ERROR_CODES.QUERY_ERROR)
    [] OTHER -> NoError

\* the validation each entry point performs before any network I/O
Validate(op, arg) ==
  CASE op = "createService" /\ arg.serviceType \notin SERVICE_TYPES ->
         NillionDBError("Invalid service type", ERROR_CODES.DATA_ERROR)
    [] op = "createReview" /\ (arg.rating < RATING_MIN \/ arg.rating > RATING_MAX) ->
         NillionDBError("Rating must be between 1 and 5", ERROR_CODES.DATA_ERROR)
    [] op = "updateBookingStatus" /\ arg.status \notin BookingStatusValues ->
         NillionDBError("Invalid status", ERROR_CODES.DATA_ERROR)
    [] op = "executeQuery" /\ arg.queryId \notin queryDefinitions ->
         NillionDBError("Query not found", ERROR_CODES.QUERY_ERROR)
    [] OTHER -> NoError

\* handleFetchResponse: the error it raises for a response
handleFetchResponse(outcome, errorMessage) ==
  IF outcome = "http_error"
    THEN NillionDBError(errorMessage, ERROR_CODES.NETWORK_ERROR)
    ELSE NoError

\* await fetch(...) followed by handleFetchResponse(...)
FetchSettle(outcome, errorMessage) ==
  IF outcome = "transport"
    THEN PlainError("fetch failed")
    ELSE handleFetchResponse(outcome, errorMessage)

Request(n, ep, body) == [node |-> n, ep |-> ep, body |-> body, latest |-> TRUE]

\* requests of earlier calls stay in flight when a new call begins
Older == {[r EXCEPT !.latest = FALSE] : r \in inflight}

\* history: the identifier and operation of a create call that reports success
Acked(result) ==
  IF result.op \in CreateOps /\ result.pc = "returned" /\ result.success
    THEN {[id |-> result.id, op |-> result.op]}
    ELSE {}

\* what every call leaves alone, and the history kept when it begins
Begin ==
  /\ before' = store
  /\ UNCHANGED <<env, NODE_CONFIG, boot, store, faults, botVars>>

CanCall ==
  /\ boot.provider = "ready"
  /\ call.pc # "awaiting"
  /\ Cardinality(inflight) <= MaxOrphans

\* a call that ends before it issues any request
ReturnAtOnce(result) ==
  /\ call' = result
  /\ inflight' = Older
  /\ sent' = [n \in NodeNames |-> <<>>]
  /\ answers' = [n \in NodeNames |-> "none"]
  /\ Begin

\* a fan-out that stops after the first usable node
FanOut_first(op, arg, ep, body, id) ==
  LET nodes   == ValidNodeSet
      fetched == IF Len(getValidNodes) = 0 THEN {} ELSE {getValidNodes[1]}
  IN /\ inflight' = Older \cup {Request(n, ep, body) : n \in fetched}
     /\ sent' = [n \in NodeNames |-> IF n \in fetched THEN <<body>> ELSE <<>>]
     /\ answers' = [n \in NodeNames |-> IF n \in fetched THEN "sent" ELSE "none"]
     /\ call' = IF nodes = {}
                  THEN Returned(op, arg, every([n \in {} |-> TRUE]), id, EmptyBag)
                  ELSE Awaiting(op, arg, id)
     /\ Begin

\* a fan-out over every configured node, usable or not
FanOut_all(op, arg, ep, body, id) ==
  /\ inflight' = Older \cup {Request(n, ep, body) : n \in NodeNames}
  /\ sent' = [n \in NodeNames |-> <<body>>]
  /\ answers' = [n \in NodeNames |-> "sent"]
  /\ call' = Awaiting(op, arg, id)
  /\ Begin

\* Promise.all(getValidNodes().map(async (nodeName) => { ... fetch ... }))
FanOut(op, arg, ep, body, id) ==
  LET nodes    == ValidNodeSet
      rejected == {n \in nodes : validateNodeConfig(n) # NoError}
      fetched  == nodes \ rejected
  IN /\ inflight' = Older \cup {Request(n, ep, body) : n \in fetched}
     /\ sent' = [n \in NodeNames |-> IF n \in fetched THEN <<body>> ELSE <<>>]
     /\ answers' = [n \in NodeNames |->
                      IF n \in fetched THEN "sent"
                      ELSE IF n \in rejected THEN "invalid" ELSE "none"]
     /\ call' = IF rejected # {}
                  THEN Caught(op, arg,
                              validateNodeConfig(CHOOSE n \in rejected : TRUE), TRUE)
                  ELSE IF nodes = {}
                    THEN Returned(op, arg, every([n \in {} |-> TRUE]), id, EmptyBag)
                    ELSE Awaiting(op, arg, id)
     /\ Begin

\* createServiceSchema / createBookingSchema / createReviewSchema
CreateSchema(op) ==
  /\ CanCall
  /\ FanOut(op, NoArg, API_ENDPOINTS.CREATE_SCHEMA,
            [schema |-> SchemaOf[op], fields |-> "payload"], 0)
  /\ UNCHANGED <<nextId, created, acked>>

createServiceSchema == CreateSchema("createServiceSchema")
createBookingSchema == CreateSchema("createBookingSchema")
createReviewSchema  == CreateSchema("createReviewSchema")

\* a create whose request body carries the record twice
Create_twice(op, arg) ==
  /\ CanCall
  /\ IF Validate(op, arg) # NoError
       THEN /\ ReturnAtOnce(Caught(op, arg, Validate(op, arg), FALSE))
            /\ UNCHANGED <<nextId, created, acked>>
       ELSE /\ nextId <= MaxIds
            /\ LET id  == randomUUID(nextId)
                   rec == BuildRecord(op, id, arg)
               IN /\ FanOut(op, arg, API_ENDPOINTS.CREATE_DATA,
                            [schema |-> SchemaOf[op], data |-> <<rec, rec>>], id)
                  /\ created' = Append(created, id)
                  /\ acked' = acked \cup Acked(call')
            /\ nextId' = nextId + 1

\* createService / createBooking / createReview
Create(op, arg) ==
  /\ CanCall
  /\ IF Validate(op, arg) # NoError
       THEN /\ ReturnAtOnce(Caught(op, arg, Validate(op, arg), FALSE))
            /\ UNCHANGED <<nextId, created, acked>>
       ELSE /\ nextId <= MaxIds
            /\ LET id  == randomUUID(nextId)
                   rec == BuildRecord(op, id, arg)
               IN /\ FanOut(op, arg, API_ENDPOINTS.CREATE_DATA,
                            [schema |-> SchemaOf[op], data |-> <<rec>>], id)
                  /\ created' = Append(created, id)
                  /\ acked' = acked \cup Acked(call')
            /\ nextId' = nextId + 1

createService ==
  \E t \in ServiceTypeInputs :
    Create("createService", [NoArg EXCEPT !.serviceType = t])
\* a booking that first looks its service up on a node
createBooking_lookup ==
  \E s \in RefInputs :
    LET arg  == [NoArg EXCEPT !.ref = s]
        body == [schema |-> "service", filter |-> [id |-> s]]
    IN /\ CanCall
       /\ Len(getValidNodes) > 0
       /\ inflight' = Older \cup {Request(getValidNodes[1], API_ENDPOINTS.READ_DATA, body)}
       /\ sent' = [n \in NodeNames |->
                     IF n = getValidNodes[1] THEN <<body>> ELSE <<>>]
       /\ answers' = [n \in NodeNames |->
                        IF n = getValidNodes[1] THEN "sent" ELSE "none"]
       /\ call' = Awaiting("createBooking", arg, 0)
       /\ Begin
       /\ UNCHANGED <<nextId, created, acked>>

createBooking ==
  \E s \in RefInputs : Create("createBooking", [NoArg EXCEPT !.ref = s])
createReview ==
  \E g \in RatingInputs : Create("createReview", [NoArg EXCEPT !.rating = g])

\* a read that picks the last usable node
ReadOne_lastNode(op, arg, ep, body) ==
  /\ CanCall
  /\ UNCHANGED <<nextId, created, acked>>
  /\ IF Validate(op, arg) # NoError
       THEN ReturnAtOnce(Caught(op, arg, Validate(op, arg), FALSE))
       ELSE IF Len(getValidNodes) = 0
         THEN ReturnAtOnce(Caught(op, arg,
                NillionDBError("No valid nodes configured",
                               ERROR_CODES.CONFIG_ERROR), TRUE))
         ELSE LET nodeName == getValidNodes[Len(getValidNodes)]
              IN /\ inflight' = Older \cup {Request(nodeName, ep, body)}
                 /\ sent' = [n \in NodeNames |->
                               IF n = nodeName THEN <<body>> ELSE <<>>]
                 /\ answers' = [n \in NodeNames |->
                               IF n = nodeName THEN "sent" ELSE "none"]
                 /\ call' = Awaiting(op, arg, 0)
                 /\ Begin

\* the single-node read every list operation and executeQuery performs
ReadOne(op, arg, ep, body) ==
  /\ CanCall
  /\ UNCHANGED <<nextId, created, acked>>
  /\ IF Validate(op, arg) # NoError
       THEN ReturnAtOnce(Caught(op, arg, Validate(op, arg), FALSE))
       ELSE IF Len(getValidNodes) = 0
         THEN ReturnAtOnce(Caught(op, arg,
                NillionDBError("No valid nodes configured",
                               ERROR_CODES.CONFIG_ERROR), TRUE))
         ELSE LET nodeName == getValidNodes[1]
              IN IF validateNodeConfig(nodeName) # NoError
                   THEN ReturnAtOnce(Caught(op, arg,
                                            validateNodeConfig(nodeName), TRUE))
                   ELSE /\ inflight' = Older \cup {Request(nodeName, ep, body)}
                        /\ sent' = [n \in NodeNames |->
                                      IF n = nodeName THEN <<body>> ELSE <<>>]
                        /\ answers' = [n \in NodeNames |->
                                      IF n = nodeName THEN "sent" ELSE "none"]
                        /\ call' = Awaiting(op, arg, 0)
                        /\ Begin

getAvailableServices ==
  \E t \in FilterInputs :
    ReadOne("getAvailableServices", [NoArg EXCEPT !.serviceType = t],
            API_ENDPOINTS.READ_DATA,
            [schema |-> "service", filter |-> [service_type |-> t, available |-> TRUE]])
getClientBookings ==
  ReadOne("getClientBookings", NoArg, API_ENDPOINTS.READ_DATA,
          [schema |-> "booking", filter |-> [client_id |-> "client"]])
getProviderBookings ==
  ReadOne("getProviderBookings", NoArg, API_ENDPOINTS.READ_DATA,
          [schema |-> "booking", filter |-> [provider_id |-> "provider"]])
executeQuery ==
  \E q \in QueryIdInputs :
    ReadOne("executeQuery", [NoArg EXCEPT !.queryId = q],
            API_ENDPOINTS.EXECUTE_QUERY, [id |-> q, variables |-> "none"])

\* a status update that rewrites the stored booking on every node
updateBookingStatus_inPlace ==
  \E st \in StatusInputs, b \in RefInputs :
    LET arg == [NoArg EXCEPT !.status = st, !.ref = b]
        Rewritten(bag) ==
          SetToBag({IF x.kind = "booking" /\ x.id = b
                      THEN [x EXCEPT !.status = st] ELSE x : x \in BagToSet(bag)})
    IN /\ CanCall
       /\ UNCHANGED <<nextId, created, acked>>
       /\ IF Validate("updateBookingStatus", arg) # NoError
            THEN ReturnAtOnce(Caught("updateBookingStatus", arg,
                                     Validate("updateBookingStatus", arg), FALSE))
            ELSE /\ call' = Returned("updateBookingStatus", arg, TRUE, b, EmptyBag)
                 /\ inflight' = Older
                 /\ sent' = [n \in NodeNames |-> <<>>]
                 /\ answers' = [n \in NodeNames |-> "none"]
                 /\ before' = store
                 /\ store' = [n \in NodeNames |-> Rewritten(store[n])]
                 /\ UNCHANGED <<env, NODE_CONFIG, boot, faults, botVars>>

\* updateBookingStatus: validates the status and acknowledges
updateBookingStatus ==
  \E st \in StatusInputs, b \in RefInputs :
    LET arg == [NoArg EXCEPT !.status = st, !.ref = b]
    IN /\ CanCall
       /\ UNCHANGED <<nextId, created, acked>>
       /\ IF Validate("updateBookingStatus", arg) # NoError
            THEN ReturnAtOnce(Caught("updateBookingStatus", arg,
                                     Validate("updateBookingStatus", arg), FALSE))
            ELSE ReturnAtOnce(Returned("updateBookingStatus", arg, TRUE, b, EmptyBag))

\* a dispute resolution that first retrieves the review from a node
resolveDispute_remote ==
  \E v \in RefInputs :
    ReadOne("resolveDispute", [NoArg EXCEPT !.ref = v], API_ENDPOINTS.READ_DATA,
            [schema |-> "review", filter |-> [id |-> v]])

\* resolveDispute: acknowledges
resolveDispute ==
  \E v \in RefInputs :
    LET arg == [NoArg EXCEPT !.ref = v]
    IN /\ CanCall
       /\ UNCHANGED <<nextId, created, acked>>
       /\ ReturnAtOnce(Returned("resolveDispute", arg, TRUE, v, EmptyBag))


\* --------------------------------------------------- the storage nodes
\* the records of a bag that satisfy a filter, each with its multiplicity
Matching(bag, keep) ==
  [rec \in BagToSet(bag) \cap keep |-> CopiesIn(rec, bag)]

\* a bag holding one copy of each element of a sequence, plus repeats
SeqToBag(seq) ==
  [x \in {seq[i] : i \in DOMAIN seq} |->
     Cardinality({i \in DOMAIN seq : seq[i] = x})]

\* records a node returns for a /data/read request
ReadData(n, body) ==
  Matching(store[n], {rec \in BagToSet(store[n]) :
     /\ rec.kind = body.schema
     /\ rec.kind = "service" =>
          /\ rec.available
          /\ body.filter.service_type \in {"", rec.service_type}})

\* records a node returns for a /queries/execute request
QueryData(n, body) ==
  Matching(store[n], {rec \in BagToSet(store[n]) :
     \/ body.id = "find_services_by_type" /\ rec.kind = "service" /\ rec.available
     \/ body.id \in {"find_bookings_by_client", "find_bookings_by_provider"}
          /\ rec.kind = "booking"
     \/ body.id = "find_disputed_reviews" /\ rec.kind = "review" /\ rec.disputed})

\* result.data of a successful response body
ResponseData(r, outcome) ==
  IF outcome # "ok_true" THEN EmptyBag
  ELSE IF r.ep = API_ENDPOINTS.READ_DATA THEN ReadData(r.node, r.body)
  ELSE IF r.ep = API_ENDPOINTS.EXECUTE_QUERY THEN QueryData(r.node, r.body)
  ELSE EmptyBag

\* records a node adds when it accepts a /data/create request
Accepted(r, outcome) ==
  IF outcome = "ok_true" /\ r.ep = API_ENDPOINTS.CREATE_DATA
    THEN SeqToBag(r.body.data)
    ELSE EmptyBag

ErrorMessageOf == [o \in AllOps |->
  IF o \in SchemaOps THEN "Failed to create schema"
  ELSE IF o \in CreateOps THEN "Failed to create data"
  ELSE IF o \in ListOps THEN "Failed to retrieve data"
  ELSE "Failed to execute query"]

\* nodes the most recent call sent a request to
Fetched == {n \in NodeNames : sent[n] # <<>>}

\* a continuation that resumes on the first response of any node
WriteSettle_race(r, outcome) ==
  LET error == FetchSettle(outcome, ErrorMessageOf[call.op])
  IN IF error # NoError
       THEN Caught(call.op, call.arg, error, TRUE)
       ELSE Returned(call.op, call.arg, outcome = "ok_true", call.id, EmptyBag)

\* a continuation whose flag is that of the response that arrives last
WriteSettle_lastWins(r, outcome) ==
  LET after == [answers EXCEPT ![r.node] = outcome]
  IN IF \A n \in Fetched : after[n] # "sent"
       THEN Returned(call.op, call.arg, outcome = "ok_true", call.id, EmptyBag)
       ELSE call

\* continuation of a write after `await Promise.all(...)`: Promise.all rejects
\* with the first rejection and fulfils once every promise has fulfilled
WriteSettle(r, outcome) ==
  LET error == FetchSettle(outcome, ErrorMessageOf[call.op])
      after == [answers EXCEPT ![r.node] = outcome]
  IN IF error # NoError
       THEN Caught(call.op, call.arg, error, TRUE)
       ELSE IF \A n \in Fetched : after[n] \in {"ok_true", "ok_false"}
         THEN Returned(call.op, call.arg,
                       every([n \in Fetched |-> after[n] = "ok_true"]),
                       call.id, EmptyBag)
         ELSE call

\* a continuation that hands the node's records out with the failure
ReadSettle_leak(r, outcome) ==
  LET error == FetchSettle(outcome, ErrorMessageOf[call.op])
  IN IF error # NoError
       THEN [Caught(call.op, call.arg, error, TRUE) EXCEPT
               !.data = ResponseData(r, "ok_true")]
       ELSE Returned(call.op, call.arg, TRUE, 0, ResponseData(r, outcome))

\* continuation of a read after `await fetch(...)`
ReadSettle(r, outcome) ==
  LET error == FetchSettle(outcome, ErrorMessageOf[call.op])
  IN IF error # NoError
       THEN Caught(call.op, call.arg, error, TRUE)
       ELSE Returned(call.op, call.arg, TRUE, 0, ResponseData(r, outcome))

\* a node answers one request (or the transport fails it)
NodeRespond ==
  \E r \in inflight, outcome \in Outcomes :
    /\ outcome # "ok_true" => faults < MaxFaults
    /\ faults' = IF outcome # "ok_true" THEN faults + 1 ELSE faults
    /\ inflight' = inflight \ {r}
    /\ store' = [store EXCEPT ![r.node] = @ (+) Accepted(r, outcome)]
    /\ before' = IF r.latest THEN before
                 ELSE [before EXCEPT ![r.node] = @ (+) Accepted(r, outcome)]
    /\ answers' = IF r.latest THEN [answers EXCEPT ![r.node] = outcome]
                  ELSE answers
    /\ call' = IF r.latest /\ call.pc = "awaiting"
                 THEN IF call.op \in WriteOps
                        THEN WriteSettle(r, outcome)
                        ELSE ReadSettle(r, outcome)
                 ELSE call
    /\ acked' = IF call.pc = "awaiting" THEN acked \cup Acked(call') ELSE acked
    /\ UNCHANGED <<env, NODE_CONFIG, boot, nextId, sent, created, botVars>>

Next ==
  \/ LoadConstants
  \/ DotenvConfig
  \/ Construct
  \/ createServiceSchema
  \/ createBookingSchema
  \/ createReviewSchema
  \/ createService
  \/ createBooking
  \/ createReview
  \/ getAvailableServices
  \/ getClientBookings
  \/ getProviderBookings
  \/ updateBookingStatus
  \/ resolveDispute
  \/ executeQuery
  \/ NodeRespond

Spec == Init /\ [][Next]_vars

\* ------------------------------------------------------------ the chatbot
Modes == {"chat", "telegram", "auto", "demo"}

\* demoScenarios.length
DemoScenarios == 8

\* lines typed at the mode prompt, at the chat prompt, and agent.stream results
ChoiceInputs  == {"1", " Chat ", "telegram", "3", "demo", "5"}
ChatInputs    == {"exit", "EXIT", "exit ", "hello"}
AgentOutcomes == {"ok", "throws"}

\* String.prototype.toLowerCase and trim on the lines above
toLowerCase(line) ==
  CASE line = " Chat " -> " chat " [] line = "EXIT" -> "exit" [] OTHER -> line
trim(line) ==
  CASE line = " chat " -> "chat" [] line = " Chat " -> "Chat"
    [] line = "exit " -> "exit" [] OTHER -> line

\* the if / else-if chain of chooseMode; "none" when no branch returns
ModeOf(choice) ==
  CASE choice \in {"1", "chat"}     -> "chat"
    [] choice \in {"2", "telegram"} -> "telegram"
    [] choice \in {"3", "auto"}     -> "auto"
    [] choice \in {"4", "demo"}     -> "demo"
    [] OTHER -> "none"

\* process.exit(code), from the place named by `where`
Exit(code, where) ==
  main' = [main EXCEPT !.pc = "exited", !.exit = code, !.ended = where]

\* the while loop of main() reaches `await chooseMode()`: chooseMode creates
\* its readline interface
ToChooseMode(how) ==
  /\ main' = [main EXCEPT !.pc = "chooseMode", !.ended = how]
  /\ chooser' = [rl |-> "open", typed |-> <<>>]


\* initializeAgent, awaited by main() inside its try block
initializeAgent ==
  /\ main.pc = "start"
  /\ \E o \in AgentOutcomes :
       IF o = "ok"
         THEN ToChooseMode("none")
         ELSE Exit("1", "initializeAgent") /\ UNCHANGED chooser
  /\ UNCHANGED <<telegram, pending, effects, inputs, providerVars>>

\* new TelegramInterface(agent, config, options) in runTelegramMode; without a
\* TELEGRAM_BOT_TOKEN the constructor throws inside the promise executor and
\* main()'s catch ends the process
NewTelegramInterface ==
  IF telegram.token
    THEN telegram' = [telegram EXCEPT !.instance = @ + 1, !.isStarted = FALSE,
                                      !.polling = TRUE, !.starters = {},
                                      !.dropped = {}]
    ELSE UNCHANGED telegram

\* chooseMode reads one line; main() dispatches on the mode it returns. The
\* readline interface is closed inside the loop, before the choice is
\* examined, so after an invalid choice rl.question runs on a closed
\* interface: it throws ERR_USE_AFTER_CLOSE or never calls back, depending on
\* the Node.js version
chooseMode ==
  /\ main.pc = "chooseMode"
  /\ chooser.rl = "open"
  /\ inputs < MaxInputs
  /\ inputs' = inputs + 1
  /\ \E line \in ChoiceInputs, closed \in {"throws", "never calls back"} :
       LET choice == trim(toLowerCase(line))
           mode   == ModeOf(choice)
       IN /\ chooser' = [rl |-> "closed", typed |-> Append(chooser.typed, line)]
          /\ IF mode = "none"
               THEN /\ IF closed = "throws"
                         THEN Exit("1", "chooseMode")
                         ELSE main' = [main EXCEPT !.pc = "hung",
                                                   !.ended = "chooseMode"]
                    /\ UNCHANGED telegram
               ELSE IF mode = "telegram"
                 THEN /\ NewTelegramInterface
                      /\ IF telegram.token
                           THEN main' = [main EXCEPT !.pc = mode, !.mode = mode,
                                                     !.ended = "none"]
                           ELSE main' = [main EXCEPT !.pc = "exited", !.mode = mode,
                                                     !.exit = "1",
                                                     !.ended = "telegram:no token"]
                 ELSE /\ main' = [main EXCEPT !.pc = mode, !.mode = mode,
                                              !.ended = "none", !.demoStep = 0,
                                              !.iterated = FALSE]
                      /\ UNCHANGED telegram
  /\ UNCHANGED <<pending, effects, providerVars>>

\* a chat loop that goes back to mode selection when the agent fails
runChatMode_forgiving ==
  /\ main.pc = "chat"
  /\ inputs < MaxInputs
  /\ inputs' = inputs + 1
  /\ \E userInput \in ChatInputs, o \in AgentOutcomes :
       IF toLowerCase(userInput) = "exit"
         THEN ToChooseMode("chat:exit")
         ELSE IF o = "throws"
           THEN ToChooseMode("chat:error")
           ELSE UNCHANGED <<main, chooser>>
  /\ UNCHANGED <<telegram, pending, effects, providerVars>>

\* runChatMode: one round of its loop
runChatMode ==
  /\ main.pc = "chat"
  /\ inputs < MaxInputs
  /\ inputs' = inputs + 1
  /\ \E userInput \in ChatInputs, o \in AgentOutcomes :
       IF toLowerCase(userInput) = "exit"
         THEN ToChooseMode("chat:exit")
         ELSE IF o = "throws"
           THEN Exit("1", "chat:error") /\ UNCHANGED chooser
           ELSE UNCHANGED <<main, chooser>>
  /\ UNCHANGED <<telegram, pending, effects, providerVars>>

\* runAutonomousMode: one round of its loop
runAutonomousMode ==
  /\ main.pc = "auto"
  /\ \E o \in AgentOutcomes :
       IF o = "throws"
         THEN Exit("1", "auto:error")
         ELSE main' = [main EXCEPT !.iterated = TRUE]
  /\ UNCHANGED <<chooser, telegram, pending, effects, inputs, providerVars>>

\* runDemoMode: one scenario of its loop; after the last one it returns
runDemoMode ==
  /\ main.pc = "demo"
  /\ \E o \in AgentOutcomes :
       IF o = "throws"
         THEN Exit("1", "demo:error") /\ UNCHANGED chooser
         ELSE IF main.demoStep + 1 < DemoScenarios
           THEN /\ main' = [main EXCEPT !.demoStep = @ + 1]
                /\ UNCHANGED chooser
           ELSE /\ main' = [main EXCEPT !.pc = "chooseMode", !.demoStep = @ + 1,
                                        !.ended = "demo:done"]
                /\ chooser' = [rl |-> "open", typed |-> <<>>]
  /\ UNCHANGED <<telegram, pending, effects, inputs, providerVars>>

\* ---- TelegramInterface
Chats == {1, 2}
Commands == {"/start", "/exit", "/kill", "/help", "/menu", "/demo"}
\* msg.text as its words; <<>> is a message without text (a photo, a sticker)
TextInputs ==
  { <<>>, <<"hello">>, <<"/other">>,
    <<"/start">>, <<"/exit">>, <<"/kill">>, <<"/help">>, <<"/menu">>, <<"/demo">>,
    <<"hello", "/kill">>, <<"/exit", "/kill">> }
\* a rejected promise nobody awaits ends the process with code 1 on Node.js 15
\* and later, and only prints a warning before
UnhandledRejections == {"crash", "warn"}

\* msg.text.startsWith("/")
startsWith(text) == text # <<>> /\ Head(text) \in Commands \cup {"/other"}
\* bot.onText(/\/cmd/, ...): the pattern is not anchored
test(cmd, text) == \E i \in 1..Len(text) : text[i] = cmd

Effect(what, by, msg) ==
  [what |-> what, by |-> by, chat |-> msg.chat, text |-> msg.text,
   instance |-> telegram.instance]

\* bot.on("message", ...): forwards the text to the agent and sends the answer
\* (or an apology when the agent throws)
messageHandler(msg) ==
  IF msg.text # <<>> /\ ~startsWith(msg.text) /\ telegram.isStarted
    THEN {Effect("forward", "message", msg)}
    ELSE {}

\* bot.onText(/\/start/, ...)
onStart(msg) ==
  IF test("/start", msg.text) THEN {Effect("reply", "/start", msg)} ELSE {}

\* command handlers that answer before any /start
onText_ungated(cmd, msg, isStarted) ==
  IF test(cmd, msg.text) THEN {Effect("reply", cmd, msg)} ELSE {}

\* bot.onText(/\/exit/ ...), /kill, /help, /menu, /demo up to their first await:
\* the reply each of them sends when this.isStarted
onText(cmd, msg, isStarted) ==
  IF test(cmd, msg.text) /\ isStarted THEN {Effect("reply", cmd, msg)} ELSE {}

\* the /demo handler then forwards its eight scenarios to the agent
onDemo(msg, isStarted) ==
  IF test("/demo", msg.text) /\ isStarted
    THEN {Effect("forward", "/demo", msg)}
    ELSE {}

\* the /exit and /kill handlers wait for their reply to be sent
Awaited(cmd, msg, isStarted) ==
  IF onText(cmd, msg, isStarted) # {} THEN {Effect("awaiting", cmd, msg)} ELSE {}

\* what this interface received and let pass because it was not started:
\* the commands, and "message" for a text that is not a command
Dropped(msg, isStarted) ==
  {cmd \in Commands : test(cmd, msg.text) /\ ~isStarted}
    \cup {by \in {"message"} : /\ msg.text # <<>>
                               /\ ~startsWith(msg.text)
                               /\ ~telegram.isStarted}

\* the bot library hands one polled message to the handlers: the "message"
\* listeners first, then every onText callback whose pattern matches, in the
\* order of registration (so /start has set isStarted before the others look)
processUpdate ==
  /\ main.pc # "exited"
  /\ telegram.polling
  /\ inputs < MaxInputs
  /\ inputs' = inputs + 1
  /\ \E chat \in Chats, text \in TextInputs, rejection \in UnhandledRejections :
       LET msg       == [chat |-> chat, text |-> text]
           isStarted == telegram.isStarted \/ test("/start", text)
           calls     == messageHandler(msg) \cup onStart(msg)
                          \cup onText("/exit", msg, isStarted)
                          \cup onText("/kill", msg, isStarted)
                          \cup onText("/help", msg, isStarted)
                          \cup onText("/menu", msg, isStarted)
                          \cup onText("/demo", msg, isStarted)
                          \cup onDemo(msg, isStarted)
       IN /\ telegram' = [telegram EXCEPT
                            !.isStarted = isStarted,
                            !.starters = IF test("/start", text)
                                           THEN @ \cup {chat} ELSE @,
                            !.dropped = @ \cup Dropped(msg, isStarted)]
          /\ effects' = effects \cup calls
          /\ pending' = pending \cup Awaited("/exit", msg, isStarted)
                                \cup Awaited("/kill", msg, isStarted)
          /\ IF calls # {} /\ rejection = "crash"
               THEN Exit("1", "unhandled rejection")
               ELSE UNCHANGED main
  /\ UNCHANGED <<chooser, providerVars>>

\* options.onExit resolves the promise runTelegramMode returned; resolving it
\* a second time, or after a newer interface was made, does nothing
onExit(p) ==
  IF main.pc = "telegram" /\ p.instance = telegram.instance
    THEN ToChooseMode("telegram:onExit")
    ELSE UNCHANGED <<main, chooser>>

\* options.onKill
onKill == Exit("0", "telegram:onKill") /\ UNCHANGED chooser

\* the rest of the /exit and /kill handlers, once sendMessage has settled
sendMessageSettled ==
  /\ main.pc # "exited"
  /\ \E p \in pending, o \in {"sent", "rejects"},
        rejection \in UnhandledRejections :
       /\ pending' = pending \ {p}
       /\ IF o = "rejects"
            THEN /\ IF rejection = "crash"
                      THEN Exit("1", "unhandled rejection")
                      ELSE UNCHANGED main
                 /\ UNCHANGED <<chooser, telegram, effects>>
            ELSE /\ telegram' = [telegram EXCEPT
                                   !.polling = @ /\ p.instance # telegram.instance]
                 /\ effects' = effects \cup
                      {[p EXCEPT !.what = IF p.by = "/exit" THEN "onExit"
                                                           ELSE "onKill"]}
                 /\ IF p.by = "/exit" THEN onExit(p) ELSE onKill
  /\ UNCHANGED <<inputs, providerVars>>

NextBot ==
  \/ initializeAgent
  \/ chooseMode
  \/ runChatMode
  \/ runAutonomousMode
  \/ runDemoMode
  \/ processUpdate
  \/ sendMessageSettled

InitBot ==
  /\ \E token \in BOOLEAN : BotBoot(token)
  /\ ProviderStart
  /\ \A k \in DOMAIN env : env[k]

SpecBot == InitBot /\ [][NextBot]_vars

\* ------------------------------------------------------------ properties
\* a node is usable when NODE_CONFIG holds both its URL and its identity
UsableNodes == {n \in NodeNames : NODE_CONFIG[n].url /\ NODE_CONFIG[n].did}

Done(ops) == call.pc = "returned" /\ call.op \in ops

\* number of HTTP requests the most recent call issued
SentCount == Len(sent["NODE1"]) + Len(sent["NODE2"]) + Len(sent["NODE3"])

LatestInFlight == {r \in inflight : r.latest}

ErrorText(code, message) == formatErrorForAgent(NillionDBError(message, code))

\* C1: for the three create operations and the three schema-creation
\* operations the returned success flag is true exactly when the fan-out was
\* dispatched and every usable node answered it with a successful HTTP status
\* and a body whose success field is true (logical AND, no quorum).
C1_SuccessIsAndOverNodes ==
  Done(WriteOps) =>
    (call.success <=>
       (call.passed /\ \A n \in UsableNodes : answers[n] = "ok_true"))

C1_Witness ==
  /\ Done(WriteOps)
  /\ call.success
  /\ Cardinality(UsableNodes) = 3
  /\ \A n \in NodeNames : answers[n] = "ok_true"

\* C2: with three usable nodes, when exactly one node answers a create with a
\* non-success HTTP status the call returns success:false, the other two nodes
\* were sent the same single request, a node that accepted it keeps the record,
\* and nothing but the one creation request per node was sent.
C2_PartialFailure ==
  \A f \in NodeNames :
    ( /\ Done(CreateOps)
      /\ Cardinality(UsableNodes) = 3
      /\ answers[f] = "http_error"
      /\ \A n \in NodeNames \ {f} : answers[n] # "http_error" )
    => /\ ~call.success
       /\ \A n \in NodeNames :
            /\ Len(sent[n]) = 1
            /\ sent[n] = sent[f]
            /\ answers[n] \in {"sent", "ok_true", "ok_false", "http_error", "transport"}
            /\ answers[n] = "sent" =>
                 \E r \in inflight : r.node = n /\ r.latest /\ r.body = sent[n][1]
            /\ answers[n] = "ok_true" => BagIn(sent[n][1].data[1], store[n])
       /\ ~BagIn(sent[f][1].data[1], store[f])
       /\ \A r \in LatestInFlight :
            r.ep = API_ENDPOINTS.CREATE_DATA /\ <<r.body>> = sent[r.node]

\* the record is on two nodes and missing on the third
C2_Witness ==
  \E f \in NodeNames :
    /\ Done(CreateOps)
    /\ Cardinality(UsableNodes) = 3
    /\ ~call.success
    /\ answers[f] = "http_error"
    /\ \A n \in NodeNames \ {f} :
         answers[n] = "ok_true" /\ BagIn(sent[n][1].data[1], store[n])
    /\ ~BagIn(sent[f][1].data[1], store[f])
    /\ inflight = {}

\* C3: with zero usable nodes every write and every read operation fails with
\* a ConfigError and issues no HTTP call.
C3_ZeroNodesConfigError ==
  (Done(WriteOps \cup ReadOps) /\ call.passed /\ UsableNodes = {}) =>
    /\ ~call.success
    /\ call.message[2] = ERROR_CODES.CONFIG_ERROR
    /\ SentCount = 0

\* C4 (as stated): a write call never has returned while one of its node
\* requests is still in flight.
C4_ReturnsAfterAllNodes ==
  Done(WriteOps) => LatestInFlight = {}

\* C4 (amended): a write call returns success only after every one of its node
\* requests has completed; when it has returned with requests still in flight,
\* it returned failure and a node request of it had already failed.
C4_EarlyReturnOnlyOnFailure ==
  (Done(WriteOps) /\ LatestInFlight # {}) =>
    /\ ~call.success
    /\ \E n \in NodeNames : answers[n] \in {"http_error", "transport"}

C4_Witness ==
  /\ Done(WriteOps)
  /\ ~call.success
  /\ Cardinality(LatestInFlight) = 2

\* C5: a service type outside the closed set makes createService return
\* success:false with a DataError and issue no HTTP request, whatever the
\* node configuration.
C5_InvalidServiceType ==
  ( /\ Done({"createService"})
    /\ call.arg.serviceType \notin
         {"language_class", "tutoring", "consulting", "coaching", "other"} )
  => /\ ~call.success
     /\ call.message = ErrorText("DATA_ERROR", "Invalid service type")
     /\ SentCount = 0
     /\ LatestInFlight = {}

C5_Witness ==
  /\ Done({"createService"})
  /\ call.arg.serviceType = "massage"
  /\ ~call.success
  /\ Cardinality(UsableNodes) = 3

\* C6: a rating below 1 or above 5 makes createReview return success:false
\* with a DataError and issue no HTTP request; a rating from 1 to 5 passes
\* validation and the write is dispatched to every usable node.
C6_RatingRange ==
  (call.op = "createReview" /\ call.pc # "idle") =>
    IF call.arg.rating < 1 \/ call.arg.rating > 5
      THEN /\ call.pc = "returned"
           /\ ~call.success
           /\ call.message = ErrorText("DATA_ERROR", "Rating must be between 1 and 5")
           /\ SentCount = 0
      ELSE /\ call.passed
           /\ \A n \in UsableNodes :
                /\ Len(sent[n]) = 1
                /\ sent[n][1].data[1].kind = "review"
                /\ sent[n][1].data[1].rating = call.arg.rating

C6_Witness ==
  /\ Done({"createReview"})
  /\ call.arg.rating = 1
  /\ call.success
  /\ UsableNodes # {}


\* an error met by the most recent call: failed validation, no usable node
\* for a read, a non-success HTTP status or a transport failure
ErrorOccurred ==
  \/ ~call.passed
  \/ call.op \in ReadOps /\ UsableNodes = {}
  \/ \E n \in NodeNames : answers[n] \in {"http_error", "transport"}

\* C7: every entry point that completes does so by returning an object with a
\* boolean success flag and a message; after a validation, configuration,
\* HTTP or transport error the flag is false, the message is the formatted
\* error, and no error is raised to the caller.
C7_UniformResult ==
  call.pc = "returned" =>
    /\ call.op \in AllOps
    /\ ~call.threw
    /\ call.success \in BOOLEAN
    /\ Len(call.message) > 0
    /\ ErrorOccurred =>
         /\ ~call.success
         /\ call.message[1] \in {"Error [", "Error: ", "Unknown error: "}

C7_Witness ==
  /\ call.pc = "returned"
  /\ \E n \in NodeNames : answers[n] = "transport"
  /\ ~call.threw
  /\ ~call.success
  /\ call.message = <<"Error: ", "fetch failed">>

\* C8: a create call that passes validation issues exactly one HTTP request
\* to each usable node and none to any other node, and all of its requests
\* carry the same body: the one record built for the call.
C8_OneRequestPerUsableNode ==
  (call.op \in CreateOps /\ call.pc # "idle" /\ call.passed) =>
    /\ \A n \in NodeNames :
         IF n \in UsableNodes
           THEN /\ Len(sent[n]) = 1
                /\ sent[n][1].schema = SchemaOf[call.op]
                /\ Len(sent[n][1].data) = 1
                /\ sent[n][1].data[1].id = created[Len(created)]
           ELSE sent[n] = <<>>
    /\ \A m, n \in UsableNodes : sent[m] = sent[n]
    /\ \A r \in LatestInFlight :
         r.node \in UsableNodes /\ <<r.body>> = sent[r.node]

C8_Witness ==
  /\ Done(CreateOps)
  /\ call.passed
  /\ Cardinality(UsableNodes) = 2
  /\ SentCount = 2

\* C9: every create call that builds a record gives it an identifier no other
\* create call used, also when the inputs are identical; the identifier the
\* call returns is the one it sent.
C9_FreshIdentifiers ==
  /\ \A i, j \in DOMAIN created :
       i # j => created[i] # created[j]
  /\ (call.op \in CreateOps /\ call.pc # "idle" /\ call.passed) =>
       /\ call.id \in {0, created[Len(created)]}
       /\ call.message = SuccessMessage[call.op] =>
            call.id = created[Len(created)]
       /\ \A n \in NodeNames : \A k \in DOMAIN sent[n] :
            sent[n][k].data[1].id = created[Len(created)]

\* two calls with the same input left two distinct records on a node
C9_Witness ==
  /\ Len(created) = 2
  /\ \E n \in NodeNames : \E a, b \in BagToSet(store[n]) :
       /\ a.id = created[1] /\ b.id = created[2]
       /\ a # b
       /\ a.kind = "review" /\ b.kind = "review"
       /\ a.rating = b.rating

FirstUsable ==
  Nodes[CHOOSE i \in 1..Len(Nodes) :
          /\ Nodes[i] \in UsableNodes
          /\ \A j \in 1..(i - 1) : Nodes[j] \notin UsableNodes]

C12_CreateAddsOneRecord ==
  (Done(CreateOps) /\ call.success) =>
    \A n \in NodeNames :
      IF n \in UsableNodes
        THEN /\ \E rec \in BagToSet(store[n]) :
                  /\ rec.id = call.id
                  /\ store[n] = before[n] (+) SetToBag({rec})
             /\ \A x \in BagToSet(before[n]) : x.id # call.id
        ELSE store[n] = before[n]

\* a second create succeeded on three nodes that already held a record
C12_Witness ==
  /\ Done(CreateOps)
  /\ call.success
  /\ Cardinality(UsableNodes) = 3
  /\ \A n \in NodeNames :
       /\ before[n] # EmptyBag
       /\ BagCardinality(store[n]) = BagCardinality(before[n]) + 1
       /\ \E rec \in BagToSet(store[n]) : rec.id = call.id

\* C13: updateBookingStatus with a status of the closed set, and
\* resolveDispute, return success:true, issue no HTTP request and leave the
\* records of every node as they were, whatever identifier they are given.
C13_LocalOpsAcknowledge ==
  ( /\ Done(LocalOps)
    /\ call.op = "updateBookingStatus" => call.arg.status \in BookingStatusValues )
  => /\ call.success
     /\ SentCount = 0
     /\ LatestInFlight = {}
     /\ \A n \in NodeNames : store[n] = before[n]

\* a status update "succeeded" for a booking that every node stores, and the
\* stored booking still has the status it was created with
C13_Witness ==
  /\ Done({"updateBookingStatus"})
  /\ call.success
  /\ call.arg.status = BOOKING_STATUS.COMPLETED
  /\ \A n \in NodeNames :
       \E rec \in BagToSet(store[n]) :
         /\ rec.kind = "booking"
         /\ rec.id = call.arg.ref
         /\ rec.status = BOOKING_STATUS.CONFIRMED

\* C14: whenever a node's HTTP call fails at the transport level or returns
\* a non-success status during a write or a read, the operation returns
\* success:false with a message that identifies a NetworkError (code
\* NETWORK_ERROR).
C14_FailureIsNetworkError ==
  \A n \in NodeNames :
    ( /\ Done(WriteOps \cup ReadOps)
      /\ answers[n] \in {"http_error", "transport"} )
    => /\ ~call.success
       /\ call.message = ErrorText(ERROR_CODES.NETWORK_ERROR, ErrorMessageOf[call.op])

\* C15: updateBookingStatus with a status outside the closed set {pending,
\* confirmed, completed, cancelled, disputed} returns success:false with a
\* DataError and issues no HTTP call; with a status inside the set it returns
\* success:true.
C15_StatusClosedSet ==
  Done({"updateBookingStatus"}) =>
    IF call.arg.status \in {"pending", "confirmed", "completed", "cancelled",
                            "disputed"}
      THEN call.success
      ELSE /\ ~call.success
           /\ ~call.threw
           /\ call.message = ErrorText(ERROR_CODES.DATA_ERROR, "Invalid status")
           /\ SentCount = 0
           /\ LatestInFlight = {}

\* a status outside the set was refused
C15_Witness ==
  /\ Done({"updateBookingStatus"})
  /\ call.arg.status = "archived"
  /\ ~call.success
  /\ call.message = ErrorText(ERROR_CODES.DATA_ERROR, "Invalid status")
  /\ SentCount = 0

\* C16: across any sequence of calls the records stored on each node only
\* grow: no step removes a record or a copy of it, changes a field of a
\* stored record, or leaves a node with two records under one identifier.
C16_StoreOnlyGrows ==
  [][ \A n \in NodeNames :
        /\ \A rec \in BagToSet(store[n]) :
             CopiesIn(rec, store'[n]) >= CopiesIn(rec, store[n])
        /\ \A a, b \in BagToSet(store'[n]) :
             /\ a.id = b.id => a = b
             /\ CopiesIn(a, store'[n]) = 1 ]_vars

\* a status update was acknowledged for a stored booking on a node that has
\* received two records
C16_Witness ==
  /\ Done({"updateBookingStatus"})
  /\ call.success
  /\ \E n \in NodeNames :
       /\ BagCardinality(store[n]) = 2
       /\ \E rec \in BagToSet(store[n]) :
            rec.kind = "booking" /\ rec.id = call.arg.ref

\* number of entries of a list of records that carry an identifier
EntriesWithId(bag, id) ==
  BagCardinality(Matching(bag, {x \in BagToSet(bag) : x.id = id}))

\* C17: after a createService call has returned success:true, a later
\* successful getAvailableServices call with no filter returns a list that
\* contains the created record's identifier exactly once.
C17_CreatedServiceListedOnce ==
  ( /\ Done({"getAvailableServices"})
    /\ call.success
    /\ call.arg.serviceType = "" )
  => \A a \in acked :
       a.op = "createService" => EntriesWithId(call.data, a.id) = 1

\* C18: createBooking returns success:true whenever every usable node
\* accepts the write, whether or not its serviceId refers to a stored record;
\* the only requests it issues are data-create requests carrying the booking.
C18_NoReferenceCheck ==
  (call.op = "createBooking" /\ call.pc # "idle") =>
    /\ \A r \in LatestInFlight : r.ep = API_ENDPOINTS.CREATE_DATA
    /\ \A n \in NodeNames : \A k \in DOMAIN sent[n] :
         /\ "data" \in DOMAIN sent[n][k]
         /\ sent[n][k].data[1].kind = "booking"
    /\ ( /\ call.pc = "returned"
         /\ \A n \in UsableNodes : answers[n] = "ok_true" )
       => call.success

\* a booking was created on three nodes none of which stores a service
\* under the booking's serviceId
C18_Witness ==
  /\ Done({"createBooking"})
  /\ call.success
  /\ Cardinality(UsableNodes) = 3
  /\ \A n \in NodeNames :
       /\ \E rec \in BagToSet(store[n]) :
            rec.id = call.id /\ rec.service_id = call.arg.ref
       /\ \A rec \in BagToSet(store[n]) :
            ~(rec.kind = "service" /\ rec.id = call.arg.ref)

\* the eleven configuration keys the specification names
ElevenKeys ==
  {<<"SV_ORG_DID">>, <<"SV_PRIVATE_KEY">>,
   <<"NODE1", "URL">>, <<"NODE1", "DID">>, <<"NODE2", "URL">>, <<"NODE2", "DID">>,
   <<"NODE3", "URL">>, <<"NODE3", "DID">>,
   <<"SCHEMA_ID_SERVICE">>, <<"SCHEMA_ID_BOOKING">>, <<"SCHEMA_ID_REVIEW">>}

\* C19: constructing the action provider while any of the eleven required
\* keys is missing or empty fails with an EnvError (code ENV_ERROR) that
\* lists the missing keys, and no provider instance exists afterwards; with
\* all keys present construction succeeds.
C19_ConstructionEnvError ==
  LET missing == {k \in ElevenKeys : ~env[k]}
  IN /\ DOMAIN env = ElevenKeys
     /\ boot.provider = "ready" => (missing = {} /\ boot.error = NoError)
     /\ boot.provider = "failed" =>
          /\ missing # {}
          /\ boot.error.name = "NillionDBError"
          /\ boot.error.code = "ENV_ERROR"
          /\ boot.error.message[2] = missing
          /\ call = NoCall
          /\ inflight = {}
     /\ boot.provider = "none" => call = NoCall

\* construction failed because the URL and identity of every node were unset
C19_Witness ==
  /\ boot.provider = "failed"
  /\ boot.error.code = "ENV_ERROR"
  /\ boot.error.message[2] = {<<n, f>> : n \in NodeNames, f \in {"URL", "DID"}}

\* C20: getValidNodes returns exactly the configured nodes that have both a
\* non-empty URL and a non-empty identity (in configuration order, each
\* once); validateNodeConfig(node) fails, with a ConfigError, exactly when
\* the node lacks a URL or an identity; so it never fails for a node that
\* getValidNodes returns.
C20_ValidNodes ==
  /\ {getValidNodes[i] : i \in DOMAIN getValidNodes}
       = {n \in NodeNames : NODE_CONFIG[n].url /\ NODE_CONFIG[n].did}
  /\ \A i, j \in DOMAIN getValidNodes :
       i < j => \E p, q \in DOMAIN Nodes :
                  p < q /\ Nodes[p] = getValidNodes[i] /\ Nodes[q] = getValidNodes[j]
  /\ \A n \in NodeNames :
       IF ~NODE_CONFIG[n].url \/ ~NODE_CONFIG[n].did
         THEN /\ validateNodeConfig(n).name = "NillionDBError"
              /\ validateNodeConfig(n).code = "CONFIG_ERROR"
         ELSE validateNodeConfig(n) = NoError
  /\ \A i \in DOMAIN getValidNodes : validateNodeConfig(getValidNodes[i]) = NoError

\* a write went to the two usable nodes of a configuration whose first node
\* has no URL
C20_Witness ==
  /\ getValidNodes = <<"NODE2", "NODE3">>
  /\ validateNodeConfig("NODE1").code = "CONFIG_ERROR"
  /\ NODE_CONFIG["NODE1"].did
  /\ Done(WriteOps)
  /\ sent["NODE1"] = <<>>
  /\ SentCount = 2

\* C21: every booking record createBooking sends has status "confirmed",
\* and in every reachable state every booking stored on any node has status
\* "confirmed", also after updateBookingStatus has returned success for that
\* booking with another status.
C21_BookingsStayConfirmed ==
  /\ \A r \in inflight :
       r.ep = API_ENDPOINTS.CREATE_DATA =>
         \A i \in DOMAIN r.body.data :
           r.body.data[i].kind = "booking" => r.body.data[i].status = "confirmed"
  /\ call.op = "createBooking" =>
       \A n \in NodeNames : \A k \in DOMAIN sent[n] :
         \A i \in DOMAIN sent[n][k].data : sent[n][k].data[i].status = "confirmed"
  /\ \A n \in NodeNames : \A rec \in BagToSet(store[n]) :
       rec.kind = "booking" => rec.status = "confirmed"

\* the first usable node still shows "confirmed" for a booking whose update
\* to "completed" was acknowledged
C21_Witness ==
  /\ Done({"updateBookingStatus"})
  /\ call.success
  /\ call.arg.status = "completed"
  /\ UsableNodes # {}
  /\ \E rec \in BagToSet(store[FirstUsable]) :
       rec.kind = "booking" /\ rec.id = call.arg.ref /\ rec.status = "confirmed"

\* C22: whenever the provider constructor has completed without throwing,
\* getValidNodes() returns all three configured nodes, whatever the order of
\* dotenv.config, the evaluation of the constants module and construction.
C22_ConstructedHasAllNodes ==
  boot.provider = "ready" => getValidNodes = Nodes

\* C23: for every create and schema-creation operation the message agrees
\* with the success flag: a result with success:false carries an error
\* message produced by formatErrorForAgent, and a result carrying the
\* "created successfully" message has success:true.
C23_MessageAgreesWithFlag ==
  Done(WriteOps) =>
    /\ ~call.success =>
         /\ call.message # <<>>
         /\ call.message[1] \in {"Error [", "Error: ", "Unknown error: "}
    /\ call.message = SuccessMessage[call.op] => call.success

\* C24: for fixed per-node outcomes of one write fan-out the returned
\* success flag does not depend on the order in which the responses and
\* failures arrive: a returned flag is never true while a request is
\* unanswered, and once every request of the call is answered the flag is
\* the conjunction of the outcomes, whichever arrived first.
C24_FlagIndependentOfOrder ==
  (Done(WriteOps) /\ call.passed) =>
    /\ call.success => \A n \in Fetched : answers[n] = "ok_true"
    /\ (\A n \in Fetched : answers[n] # "sent") =>
         (call.success <=> \A n \in Fetched : answers[n] = "ok_true")

\* of three requests the second to be answered failed, after one acceptance
\* and before the third response
C24_Witness ==
  /\ Done(WriteOps)
  /\ ~call.success
  /\ \E a, b, c \in NodeNames :
       /\ answers[a] = "ok_true"
       /\ answers[b] = "http_error"
       /\ answers[c] = "sent"

\* C25: whenever a read operation returns success:false its payload
\* (services, bookings or results) is an empty list.
C25_FailedReadHasNoPayload ==
  (Done(ReadOps) /\ ~call.success) => call.data = EmptyBag

\* a read failed at a node that stores a record the read asked for
C25_Witness ==
  /\ Done({"getAvailableServices"})
  /\ ~call.success
  /\ call.data = EmptyBag
  /\ UsableNodes # {}
  /\ answers[FirstUsable] \in {"http_error", "transport"}
  /\ \E rec \in BagToSet(store[FirstUsable]) : rec.kind = "service"

\* C30: every service record written by createService has available = true
\* and no operation changes it: after a successful createBooking for a
\* service, a successful getAvailableServices call whose filter admits the
\* service still returns it.
C30_BookedServiceStaysListed ==
  /\ \A n \in NodeNames :
       /\ \A rec \in BagToSet(store[n]) : rec.kind = "service" => rec.available
       /\ \A k \in DOMAIN sent[n] :
            call.op = "createService" => sent[n][k].data[1].available
  /\ (Done({"getAvailableServices"}) /\ call.success) =>
       \A a, b \in acked :
         ( /\ a.op = "createService"
           /\ b.op = "createBooking"
           /\ \E n \in NodeNames : \E s, k \in BagToSet(store[n]) :
                /\ s.id = a.id
                /\ k.id = b.id
                /\ k.service_id = a.id
                /\ call.arg.serviceType \in {"", s.service_type} )
         => EntriesWithId(call.data, a.id) >= 1

\* the lines typed at the current mode prompt were all invalid choices
OnlyInvalidTyped ==
  /\ chooser.typed # <<>>
  /\ \A i \in DOMAIN chooser.typed :
       ModeOf(trim(toLowerCase(chooser.typed[i]))) = "none"

\* C26: chooseMode only returns one of chat, telegram, auto or demo, and
\* after an invalid choice it prompts again, so that a later valid choice is
\* accepted: as long as only invalid choices were typed, main is still at the
\* mode prompt with a readline interface that can take the next line.
C26_InvalidChoicePromptsAgain ==
  /\ main.mode \in Modes \cup {"none"}
  /\ OnlyInvalidTyped => main.pc = "chooseMode" /\ chooser.rl = "open"

Gated == {e \in effects \cup pending : ~(e.what = "reply" /\ e.by = "/start")}

\* C28: an interface that has received no /start has sent no reply to /exit,
\* /kill, /help, /menu or /demo, has forwarded nothing to the agent and has
\* called neither onExit nor onKill; an interface that has received /start
\* is started and stays so; the message handler forwards no text that begins
\* with "/".
C28_NothingBeforeStart ==
  /\ telegram.starters = {} =>
       /\ ~telegram.isStarted
       /\ \A e \in Gated : e.instance # telegram.instance
  /\ \A e \in Gated :
       \E w \in effects : /\ w.what = "reply" /\ w.by = "/start"
                           /\ w.instance = e.instance
  /\ telegram.starters # {} => telegram.isStarted
  /\ \A e \in effects :
       e.what = "forward" /\ e.by = "message" => ~startsWith(e.text)

\* an interface that is not started has let /exit, /kill and a text pass
\* without doing anything
C28_Witness ==
  /\ main.pc = "telegram"
  /\ telegram.starters = {}
  /\ {"/exit", "/kill", "message"} \subseteq telegram.dropped
  /\ effects = {}
  /\ pending = {}

\* C29: with several chats, a text is forwarded to the agent, and /exit or
\* /kill takes effect, only for a chat that has itself sent /start to this
\* interface before.
C29_OnlyChatsThatStarted ==
  \A e \in effects :
    /\ e.instance = telegram.instance
    /\ \/ e.what = "forward" /\ e.by = "message"
       \/ e.what \in {"onExit", "onKill"}
    => e.chat \in telegram.starters

====
